---- MODULE Spec2Model ----
(***************************************************************************)
(* A model of WibblyWires: the Verlet rope simulation of Verlet.h and the  *)
(* per-wire state and registry of WibblyConnectionDrawingPolicy.{h,cpp}.   *)
(*                                                                         *)
(* Numbers.  The program computes in `float'.  A stored float is modelled  *)
(* as a fixed-point integer: a length or coordinate x is the integer       *)
(* x * Scale, a time t is the integer t * DtPerSecond.  A product or       *)
(* quotient of an expression is computed exactly and rounded to the        *)
(* nearest integer once (RDiv, Size), as a float operation rounds its      *)
(* exact result.  The one non-finite value the program produces, the NaN   *)
(* vector of a division by a zero length, is the value NaNVec; every       *)
(* vector operation propagates it, every comparison with it is false.      *)
(***************************************************************************)
EXTENDS Integers, Sequences, FiniteSets, TLC

VARIABLES
    CurrentTime,    \* FSlateApplication::Get().GetCurrentTime(), in seconds
    chain,          \* one FVerletChain
    lastOp,         \* history: the operation that produced this state, with its arguments
    VerletChains,   \* FVerletState::VerletChains
    updatedChains,  \* history: VerletChains after the Update loop of UpdateVerletChains, before the removal
    BounceWires,    \* the console variable WibblyWires.BounceWires
    wire,           \* one FWireState
    springOut,      \* history: the tracker velocity as the spring step of the last Update produced it
    Wires,          \* FGraphState::Wires of one graph: a function from FWireId to FWireState
    lastDraw,       \* history: what the last DrawConnection did
    idA, idB,       \* two FWireId values
    idOut           \* the results of the FWireId operations on idA, idB

vars == <<CurrentTime, chain, lastOp, VerletChains, updatedChains, BounceWires,
          wire, springOut, Wires, lastDraw, idA, idB, idOut>>

-----------------------------------------------------------------------------
(* float arithmetic *)

\* The fixed-point resolution: a float x is stored as x * Scale.
Scale == 60
\* The resolution of times: a float time of t seconds is stored as t * DtPerSecond.
DtPerSecond == 3000
\* The resolution of a dimensionless ratio (a normalised direction, a blend factor).
Unit == 1000

Abs(a) == IF a < 0 THEN -a ELSE a

Sign(a) == IF a > 0 THEN 1 ELSE IF a < 0 THEN -1 ELSE 0

\* a / b rounded to the nearest integer (b > 0), symmetric about zero.
RDiv(a, b) == IF a >= 0 THEN (2 * a + b) \div (2 * b) ELSE -((2 * (-a) + b) \div (2 * b))

RECURSIVE SqrtIter(_, _)
SqrtIter(n, x) ==
    LET y == (x + n \div x) \div 2
    IN  IF y >= x THEN x ELSE SqrtIter(n, y)

\* The integer part of the square root of n >= 0.
FloorSqrt(n) == IF n = 0 THEN 0 ELSE SqrtIter(n, n)

\* The square root of n >= 0, rounded to the nearest integer.
Sqrt(n) ==
    LET r == FloorSqrt(n)
    IN  IF n - r * r > r THEN r + 1 ELSE r

\* e, with v evaluated first.  TLC evaluates an operator's argument when it is first
\* used; a loop that passes its state on unevaluated nests one evaluation per iteration.
Then(v, e) == IF v = v THEN e ELSE e

FMin(a, b) == IF a < b THEN a ELSE b

FMax(a, b) == IF b < a THEN a ELSE b

\* FMath::Lerp(A, B, Alpha) = A + Alpha * (B - A), with Alpha = num / den.
Lerp(a, b, num, den) == a + RDiv(num * (b - a), den)

-----------------------------------------------------------------------------
(* FVectorType / FVector2D *)

Vec(x, y) == [X |-> x, Y |-> y]

ZeroVector == Vec(0, 0)

\* NaN.  As a vector: the vector both of whose components are NaN.
NaNVec == [NaN |-> TRUE]

\* A float that may be NaN is stored as Num(n) or NaNVec (the chain's stick lengths are).
Num(n) == [V |-> n]

IsNaN(v) == v = NaNVec

VAdd(a, b) == IF IsNaN(a) \/ IsNaN(b) THEN NaNVec ELSE Vec(a.X + b.X, a.Y + b.Y)

VSub(a, b) == IF IsNaN(a) \/ IsNaN(b) THEN NaNVec ELSE Vec(a.X - b.X, a.Y - b.Y)

\* v * (num / den)
VScale(v, num, den) == IF IsNaN(v) THEN NaNVec ELSE Vec(RDiv(v.X * num, den), RDiv(v.Y * num, den))

SizeSquared(v) == v.X * v.X + v.Y * v.Y

\* FVector2D::Size() of a finite vector.
Size(v) == Sqrt(SizeSquared(v))

-----------------------------------------------------------------------------
(* Tunables (console variables) at their defaults, and the constants of Verlet.h *)

\* WireFriction = 0.9996 = WireFrictionNum / WireFrictionDen
WireFrictionNum == 9996
WireFrictionDen == 10000
\* SecondsBeforeBreaking = 1.f
SecondsBeforeBreaking == 1
\* FVerletChain::Gravity = (0, 1500)
GravityY == 1500
DefaultGravity == Vec(0, GravityY * Scale)
\* const int32 Substeps = 10
Substeps == 10
\* for (int32 j = 0; j < 5; j++)
ConstraintPasses == 5
\* MaxDeltaTime = 1 / 30 s
MaxDeltaTimeHz == 30
MaxDeltaTime == DtPerSecond \div MaxDeltaTimeHz

-----------------------------------------------------------------------------
(* FVerletPoint *)

FVerletPoint(InitialPosition, IsPinned, InitialVelocity) ==
    [Position |-> InitialPosition,
     LastPosition |-> VSub(InitialPosition, InitialVelocity),
     Acceleration |-> ZeroVector,
     bIsPinned |-> IsPinned]

CalculateVelocity(p) == VSub(p.Position, p.LastPosition)

\* Acceleration * deltaTime * deltaTime
AccelTerm(a, dt) == VScale(a, dt * dt, DtPerSecond * DtPerSecond)

\* UpdatePosition without its test of bIsPinned.
UpdatePositionUnguarded(p, dt) ==
    LET Velocity == VScale(CalculateVelocity(p), WireFrictionNum, WireFrictionDen)
    IN  [p EXCEPT !.LastPosition = p.Position,
                  !.Position = VAdd(VAdd(p.Position, Velocity), AccelTerm(p.Acceleration, dt)),
                  !.Acceleration = ZeroVector]

UpdatePosition(p, dt) ==
    IF ~p.bIsPinned
    THEN LET Velocity == VScale(CalculateVelocity(p), WireFrictionNum, WireFrictionDen)
         IN  [p EXCEPT !.LastPosition = p.Position,
                       !.Position = VAdd(VAdd(p.Position, Velocity), AccelTerm(p.Acceleration, dt)),
                       !.Acceleration = ZeroVector]
    ELSE [p EXCEPT !.Acceleration = ZeroVector]

Accelerate(p, Impulse) == [p EXCEPT !.Acceleration = VAdd(p.Acceleration, Impulse)]

\* AddVelocity as an assignment of the velocity: LastPosition = Position - Velocity.
AddVelocitySetting(p, Velocity) == [p EXCEPT !.LastPosition = VSub(p.Position, Velocity)]

AddVelocity(p, Velocity) == [p EXCEPT !.LastPosition = VSub(p.LastPosition, Velocity)]

-----------------------------------------------------------------------------
(* FVerletStick *)

FVerletStick(InPoint0, InPoint1, InDesiredLength) ==
    [Point0Index |-> InPoint0, Point1Index |-> InPoint1, DesiredLength |-> InDesiredLength]

\* Delta * ((DesiredLength - CurrentLength) / CurrentLength) * 0.5.  With CurrentLength = 0
\* the quotient is 0/0 = NaN or x/0 = +-inf, and Delta = (0, 0) times either is NaN.
HalfOffsetOf(Delta, DesiredLength) ==
    IF IsNaN(Delta) \/ IsNaN(DesiredLength) THEN NaNVec
    ELSE LET CurrentLength == Size(Delta)
             Difference == DesiredLength.V - CurrentLength
         IN  IF CurrentLength = 0 THEN NaNVec
             ELSE Vec(RDiv(Delta.X * Difference, 2 * CurrentLength),
                      RDiv(Delta.Y * Difference, 2 * CurrentLength))

\* The pair <<Point0, Point1>> after Stick.ConstrainLength(Point0, Point1).
ConstrainLength(Stick, Point0, Point1) ==
    LET Delta == VSub(Point1.Position, Point0.Position)
        Half == HalfOffsetOf(Delta, Stick.DesiredLength)
        HalfOffset == IF Point0.bIsPinned \/ Point1.bIsPinned THEN VScale(Half, 2, 1) ELSE Half
    IN  << IF ~Point0.bIsPinned
           THEN [Point0 EXCEPT !.Position = VSub(Point0.Position, HalfOffset)]
           ELSE Point0,
           IF ~Point1.bIsPinned
           THEN [Point1 EXCEPT !.Position = VAdd(Point1.Position, HalfOffset)]
           ELSE Point1 >>

-----------------------------------------------------------------------------
(* FVerletChain *)

\* FVerletChain(LineColor, LineThickness) at time now; colour and thickness are
\* carried through untouched and left out.
FVerletChain(now, gravity) ==
    [Gravity |-> gravity, Points |-> <<>>, Sticks |-> <<>>,
     CreationTime |-> now, bHasBroken |-> FALSE]

\* Indices are those of the C++ arrays (from 0); the TLA+ sequences start at 1.
PointAt(c, i) == c.Points[i + 1]

\* FVectorType::Distance
Distance(a, b) == IF IsNaN(a) \/ IsNaN(b) THEN NaNVec ELSE Num(Size(VSub(b, a)))

\* AddToChain with the stick's indices one too high.
AddToChainOffByOne(c, NewPoint, bIsPinned) ==
    LET pts == Append(c.Points, FVerletPoint(NewPoint, bIsPinned, ZeroVector))
        PointCount == Len(pts)
    IN  IF PointCount >= 2
        THEN [c EXCEPT !.Points = pts,
                       !.Sticks = Append(c.Sticks,
                                         FVerletStick(PointCount - 1, PointCount,
                                                      Distance(pts[PointCount - 1].Position,
                                                               pts[PointCount].Position)))]
        ELSE [c EXCEPT !.Points = pts]

AddToChain(c, NewPoint, bIsPinned) ==
    LET pts == Append(c.Points, FVerletPoint(NewPoint, bIsPinned, ZeroVector))
        PointCount == Len(pts)
    IN  IF PointCount >= 2
        THEN LET P0Index == PointCount - 2
                 P1Index == PointCount - 1
                 DesiredLength == Distance(pts[P0Index + 1].Position, pts[P1Index + 1].Position)
             IN  [c EXCEPT !.Points = pts,
                           !.Sticks = Append(c.Sticks, FVerletStick(P0Index, P1Index, DesiredLength))]
        ELSE [c EXCEPT !.Points = pts]

Translate(c, Translation) ==
    [c EXCEPT !.Points = [i \in DOMAIN c.Points |->
        [c.Points[i] EXCEPT !.Position = VAdd(c.Points[i].Position, Translation),
                            !.LastPosition = VAdd(c.Points[i].LastPosition, Translation)]]]

\* Stick.DesiredLength *= Multiplier, with Multiplier = num / den
ShrinkSticksBy(c, num, den) ==
    [c EXCEPT !.Sticks = [i \in DOMAIN c.Sticks |->
        [c.Sticks[i] EXCEPT !.DesiredLength =
            IF IsNaN(@) THEN NaNVec ELSE Num(RDiv(@.V * num, den))]]]

SetAllPinned(c, bIsPinned) ==
    [c EXCEPT !.Points = [i \in DOMAIN c.Points |-> [c.Points[i] EXCEPT !.bIsPinned = bIsPinned]]]

UnpinAll(c) == SetAllPinned(c, FALSE)

GetSecondsSinceCreated(c, now) == now - c.CreationTime

ApplyGravity(c) ==
    [c EXCEPT !.Points = [i \in DOMAIN c.Points |-> Accelerate(c.Points[i], c.Gravity)]]

UpdatePositions(c, dt) ==
    [c EXCEPT !.Points = [i \in DOMAIN c.Points |-> UpdatePosition(c.Points[i], dt)]]

\* The points after the sticks from the k-th on have been constrained, in order.
RECURSIVE ConstrainFrom(_, _, _)
ConstrainFrom(pts, sticks, k) ==
    IF k > Len(sticks) THEN pts
    ELSE LET s == sticks[k]
             r == ConstrainLength(s, pts[s.Point0Index + 1], pts[s.Point1Index + 1])
             after == [pts EXCEPT ![s.Point0Index + 1] = r[1], ![s.Point1Index + 1] = r[2]]
         IN  Then(after, ConstrainFrom(after, sticks, k + 1))

ApplyConstraints(c) == [c EXCEPT !.Points = ConstrainFrom(c.Points, c.Sticks, 1)]

\* ApplyCollisions does nothing.
RECURSIVE ConstraintLoop(_, _)
ConstraintLoop(c, j) ==
    IF j >= ConstraintPasses THEN c
    ELSE LET after == ApplyConstraints(c)
         IN  Then(after, ConstraintLoop(after, j + 1))

RECURSIVE SubstepLoop(_, _, _)
SubstepLoop(c, SubDeltaTime, i) ==
    IF i >= Substeps THEN c
    ELSE LET after == ConstraintLoop(UpdatePositions(ApplyGravity(c), SubDeltaTime), 0)
         IN  Then(after, SubstepLoop(after, SubDeltaTime, i + 1))

\* The break of a dangling chain at the start of Update.
\* The break without its test of bHasBroken.
BreakWheneverDue(c, now) ==
    IF GetSecondsSinceCreated(c, now) > SecondsBeforeBreaking
    THEN [SetAllPinned(c, FALSE) EXCEPT !.bHasBroken = TRUE]
    ELSE c

BreakIfDue(c, now) ==
    IF GetSecondsSinceCreated(c, now) > SecondsBeforeBreaking /\ ~c.bHasBroken
    THEN [SetAllPinned(c, FALSE) EXCEPT !.bHasBroken = TRUE]
    ELSE c

ChainUpdate(c, DeltaTime, now) ==
    LET dt == FMin(MaxDeltaTime, DeltaTime)
        SubDeltaTime == RDiv(dt, Substeps)
    IN  SubstepLoop(BreakIfDue(c, now), SubDeltaTime, 0)

-----------------------------------------------------------------------------
(* Bounds of the model *)

\* The most points a chain is given.
MaxPoints == 2
\* The most operations of a behaviour.
MaxSteps == 4
\* The last time the clock reaches, in seconds.
MaxTime == 2

-----------------------------------------------------------------------------
(* The values the variables of the other parts keep while one part runs *)

NoOp == [op |-> "Init", n |-> 0, i |-> 0, v |-> ZeroVector]

NoWire == [DesiredRopeLength |-> 0]

NoDraw == [id |-> <<0, 0>>, created |-> FALSE, base |-> NoWire]

chainVars == <<chain, lastOp>>
setVars == <<VerletChains, updatedChains>>
wireVars == <<BounceWires, wire, springOut>>
regVars == <<Wires, lastDraw>>
idVars == <<idA, idB, idOut>>

SetIdle == VerletChains = <<>> /\ updatedChains = <<>>
WireIdle == BounceWires = 0 /\ wire = NoWire /\ springOut = ZeroVector
RegIdle == Wires = <<>> /\ lastDraw = NoDraw
IdIdle == idA = <<0, 0>> /\ idB = <<0, 0>> /\ idOut = <<>>
ChainIdle == chain = FVerletChain(0, DefaultGravity) /\ lastOp = NoOp

-----------------------------------------------------------------------------
(* One chain and the operations of its owner *)

Px(x, y) == Vec(x * Scale, y * Scale)

\* The positions points are appended at; distances of 0 and of 5 both occur.
ChainPositions == {Px(0, 0), Px(3, 4)}
ChainVelocities == {Px(1, 0), Px(0, -2)}
ChainTranslations == {Px(5, 5)}
\* DeltaTime of 1/60 s and of 1/15 s (clamped to 1/30 s)
ChainDeltaTimes == {DtPerSecond \div 60, DtPerSecond \div 15}

PointIndices == 0 .. Len(chain.Points) - 1

ChainInit ==
    /\ CurrentTime = 0
    /\ chain = FVerletChain(0, DefaultGravity)
    /\ lastOp = NoOp
    /\ SetIdle /\ WireIdle /\ RegIdle /\ IdIdle

\* The next value of lastOp: the operation, the point or stick it was applied to, its vector argument.
Did(name, i, v) == lastOp' = [op |-> name, n |-> lastOp.n + 1, i |-> i, v |-> v]

CanStep == lastOp.n < MaxSteps

DoAddToChain ==
    \E p \in ChainPositions, b \in BOOLEAN :
        /\ CanStep /\ Len(chain.Points) < MaxPoints
        /\ chain' = AddToChain(chain, p, b)
        /\ Did("AddToChain", Len(chain.Points), p)
        /\ UNCHANGED <<CurrentTime, setVars, wireVars, regVars, idVars>>

DoTranslate ==
    \E t \in ChainTranslations :
        /\ CanStep /\ Len(chain.Points) > 0
        /\ chain' = Translate(chain, t)
        /\ Did("Translate", 0, t)
        /\ UNCHANGED <<CurrentTime, setVars, wireVars, regVars, idVars>>

DoShrinkSticksBy ==
    /\ CanStep /\ Len(chain.Sticks) > 0
    /\ chain' = ShrinkSticksBy(chain, 1, 2)
    /\ Did("ShrinkSticksBy", 0, ZeroVector)
    /\ UNCHANGED <<CurrentTime, setVars, wireVars, regVars, idVars>>

DoSetAllPinned ==
    \E b \in BOOLEAN :
        /\ CanStep /\ Len(chain.Points) > 0
        /\ chain' = SetAllPinned(chain, b)
        /\ Did("SetAllPinned", 0, ZeroVector)
        /\ UNCHANGED <<CurrentTime, setVars, wireVars, regVars, idVars>>

DoChainUpdate ==
    \E dt \in ChainDeltaTimes :
        /\ CanStep /\ Len(chain.Points) > 0
        /\ chain' = ChainUpdate(chain, dt, CurrentTime)
        /\ Did("Update", 0, ZeroVector)
        /\ UNCHANGED <<CurrentTime, setVars, wireVars, regVars, idVars>>

DoAccelerate ==
    \E i \in PointIndices :
        /\ CanStep
        /\ chain' = [chain EXCEPT !.Points[i + 1] = Accelerate(@, chain.Gravity)]
        /\ Did("Accelerate", i, chain.Gravity)
        /\ UNCHANGED <<CurrentTime, setVars, wireVars, regVars, idVars>>

DoUpdatePosition ==
    \E i \in PointIndices :
        /\ CanStep
        /\ chain' = [chain EXCEPT !.Points[i + 1] = UpdatePosition(@, MaxDeltaTime \div Substeps)]
        /\ Did("UpdatePosition", i, ZeroVector)
        /\ UNCHANGED <<CurrentTime, setVars, wireVars, regVars, idVars>>

DoConstrainLength ==
    \E k \in DOMAIN chain.Sticks :
        /\ CanStep
        /\ LET s == chain.Sticks[k]
               r == ConstrainLength(s, PointAt(chain, s.Point0Index), PointAt(chain, s.Point1Index))
           IN  chain' = [chain EXCEPT !.Points[s.Point0Index + 1] = r[1],
                                      !.Points[s.Point1Index + 1] = r[2]]
        /\ Did("ConstrainLength", k - 1, ZeroVector)
        /\ UNCHANGED <<CurrentTime, setVars, wireVars, regVars, idVars>>

DoAddVelocity ==
    \E i \in PointIndices, v \in ChainVelocities :
        /\ CanStep
        /\ chain' = [chain EXCEPT !.Points[i + 1] = AddVelocity(@, v)]
        /\ Did("AddVelocity", i, v)
        /\ UNCHANGED <<CurrentTime, setVars, wireVars, regVars, idVars>>

\* The host's clock moves on between two calls.
AdvanceTime ==
    /\ CurrentTime < MaxTime
    /\ CurrentTime' = CurrentTime + 1
    /\ lastOp' = [lastOp EXCEPT !.op = "AdvanceTime"]
    /\ UNCHANGED <<chain, setVars, wireVars, regVars, idVars>>

ChainNext ==
    \/ DoAddToChain
    \/ DoTranslate
    \/ DoShrinkSticksBy
    \/ DoSetAllPinned
    \/ DoChainUpdate
    \/ DoAccelerate
    \/ DoUpdatePosition
    \/ DoConstrainLength
    \/ DoAddVelocity
    \/ AdvanceTime

SpecChain == ChainInit /\ [][ChainNext]_vars

-----------------------------------------------------------------------------
(* Claims about one chain *)

Integrating == {"Accelerate", "UpdatePosition", "ConstrainLength", "Update"}

\* C1: a point that is pinned before and after an accelerate, integrate, satisfy or
\* chain update step has the same position after the step as before it.
C1_PinnedInvariance ==
    [][lastOp'.op \in Integrating =>
        \A i \in DOMAIN chain.Points :
            (chain.Points[i].bIsPinned /\ chain'.Points[i].bIsPinned)
                => chain'.Points[i].Position = chain.Points[i].Position]_vars

\* C1's case: a chain update has run on a chain with a pinned point and a free point
\* that the update moved.
C1_Witness ==
    /\ lastOp.op = "Update"
    /\ \E i, j \in DOMAIN chain.Points :
        /\ chain.Points[i].bIsPinned
        /\ ~chain.Points[j].bIsPinned
        /\ ~IsNaN(chain.Points[j].Position)
        /\ chain.Points[j].Position # chain.Points[j].LastPosition

\* C6: constraint relaxation never divides by zero: every position is well-defined
\* (no NaN), also after two coincident points were appended and the chain updated.
C6_NoDivisionByZero ==
    \A i \in DOMAIN chain.Points : ~IsNaN(chain.Points[i].Position)

\* C7 as stated: after the velocity-setting operation with v on a point with a
\* well-defined position, the position is unchanged and position - lastPosition is v.
C7_SetsVelocity ==
    [][lastOp'.op = "AddVelocity" =>
        LET p == chain.Points[lastOp'.i + 1]
            q == chain'.Points[lastOp'.i + 1]
        IN  ~IsNaN(p.Position) =>
                /\ q.Position = p.Position
                /\ CalculateVelocity(q) = lastOp'.v]_vars

\* C7 as amended: AddVelocity(v) leaves the position unchanged and adds v to
\* position - lastPosition (twice, with v1 then v2: adds v1 + v2).
C7_AddsVelocity ==
    [][lastOp'.op = "AddVelocity" =>
        LET p == chain.Points[lastOp'.i + 1]
            q == chain'.Points[lastOp'.i + 1]
        IN  /\ q.Position = p.Position
            /\ CalculateVelocity(q) = VAdd(CalculateVelocity(p), lastOp'.v)]_vars

\* C7's case: AddVelocity(v) has run on a point that had a velocity already, and
\* left it with a velocity other than v.
C7_Witness ==
    /\ lastOp.op = "AddVelocity"
    /\ ~IsNaN(chain.Points[lastOp.i + 1].Position)
    /\ CalculateVelocity(chain.Points[lastOp.i + 1]) # lastOp.v

-----------------------------------------------------------------------------
(* One constraint between a pinned and a free point, without gravity *)

\* How far, in 1/Scale, a length may be from the rest length and count as equal to it.
Tolerance == 2

PairPositions == {Px(10, 0), Px(0, 10), Px(6, 8), Px(-5, 12), Px(7, 0), Px(-3, -4), Px(26, 0), Px(0, -9)}
\* Rest lengths: 0, 5, 10, 13 (in Scale)
PairLengths == {0, 5 * Scale, 10 * Scale, 13 * Scale}

\* The chain of a point at the origin and a point at p, the first or the second of
\* them pinned, both at rest, with the stick's DesiredLength set to L.
PairChain(p, firstPinned, L) ==
    LET c == AddToChain(AddToChain(FVerletChain(0, ZeroVector), ZeroVector, firstPinned),
                        p, ~firstPinned)
    IN  [c EXCEPT !.Sticks[1].DesiredLength = Num(L)]

PairInit ==
    /\ CurrentTime = 0
    /\ \E p \in PairPositions, b \in BOOLEAN, L \in PairLengths :
        /\ Size(p) # L
        /\ chain = PairChain(p, b, L)
    /\ lastOp = NoOp
    /\ SetIdle /\ WireIdle /\ RegIdle /\ IdIdle

\* One satisfy pass, on the chain as constructed.
PairSatisfy ==
    /\ lastOp.op = "Init"
    /\ chain' = ApplyConstraints(chain)
    /\ Did("ConstrainLength", 0, ZeroVector)
    /\ UNCHANGED <<CurrentTime, setVars, wireVars, regVars, idVars>>

PairUpdate ==
    \E dt \in ChainDeltaTimes :
        /\ CanStep /\ lastOp.op # "ConstrainLength"
        /\ chain' = ChainUpdate(chain, dt, CurrentTime)
        /\ Did("Update", 0, ZeroVector)
        /\ UNCHANGED <<CurrentTime, setVars, wireVars, regVars, idVars>>

PairNext == PairSatisfy \/ PairUpdate

SpecPair == PairInit /\ [][PairNext]_vars

PairLength == Distance(chain.Points[1].Position, chain.Points[2].Position)

\* C9: after a single satisfy pass, and after any number of chain updates, the distance
\* of the free point from the pinned point is within the tolerance of the rest length.
C9_ReachesRestLength ==
    lastOp.op \in {"ConstrainLength", "Update"} =>
        /\ ~IsNaN(PairLength)
        /\ Abs(PairLength.V - chain.Sticks[1].DesiredLength.V) <= Tolerance

\* C9 for the single satisfy pass alone.
C9_SinglePass ==
    lastOp.op = "ConstrainLength" =>
        /\ ~IsNaN(PairLength)
        /\ Abs(PairLength.V - chain.Sticks[1].DesiredLength.V) <= Tolerance

-----------------------------------------------------------------------------
(* FVerletState: the chains of a graph *)

\* Chain.GetSecondsSinceCreated() > 30.f
MaxChainAge == 30
\* Bounds.Min.Y > 2000.f || Bounds.Max.Y < -1000.f || Bounds.Min.X > 3000.f || Bounds.Max.X < -1000.f
BoundsMinYLimit == 2000
BoundsMaxYLimit == -1000
BoundsMinXLimit == 3000
BoundsMaxXLimit == -1000

\* FBoxType(ForceInitToZero)
ZeroBox == [Min |-> ZeroVector, Max |-> ZeroVector, bIsValid |-> FALSE]

\* Bounds += Point: the first point sets Min and Max; a later one is merged by
\* FMath::Min and FMath::Max, which return their second argument when either is NaN.
BoxAdd(b, p) ==
    IF ~b.bIsValid \/ IsNaN(p) \/ IsNaN(b.Min)
    THEN [Min |-> p, Max |-> p, bIsValid |-> TRUE]
    ELSE [Min |-> Vec(FMin(b.Min.X, p.X), FMin(b.Min.Y, p.Y)),
          Max |-> Vec(FMax(b.Max.X, p.X), FMax(b.Max.Y, p.Y)),
          bIsValid |-> TRUE]

RECURSIVE BoundsFrom(_, _, _)
BoundsFrom(b, pts, k) ==
    IF k > Len(pts) THEN b ELSE BoundsFrom(BoxAdd(b, pts[k].Position), pts, k + 1)

CalcBounds(c) == BoundsFrom(ZeroBox, c.Points, 1)

\* The predicate of RemoveAllSwap in UpdateVerletChains.  A comparison with NaN is false.
ShouldRemove(c, now) ==
    IF GetSecondsSinceCreated(c, now) > MaxChainAge THEN TRUE
    ELSE LET Bounds == CalcBounds(c)
         IN  /\ ~IsNaN(Bounds.Min)
             /\ \/ Bounds.Min.Y > BoundsMinYLimit * Scale
                \/ Bounds.Max.Y < BoundsMaxYLimit * Scale
                \/ Bounds.Min.X > BoundsMinXLimit * Scale
                \/ Bounds.Max.X < BoundsMaxXLimit * Scale

\* TArray::RemoveAtSwap(Index): the last element takes the place of the removed one.
RemoveAtSwap(arr, Index) ==
    LET last == Len(arr)
    IN  IF Index + 1 = last THEN SubSeq(arr, 1, last - 1)
        ELSE [SubSeq(arr, 1, last - 1) EXCEPT ![Index + 1] = arr[last]]

\* TArray::RemoveAllSwap: the index moves on only past an element that stays.
RECURSIVE RemoveAllSwapFrom(_, _, _)
RemoveAllSwapFrom(arr, ItemIndex, now) ==
    IF ItemIndex >= Len(arr) THEN arr
    ELSE IF ShouldRemove(arr[ItemIndex + 1], now)
         THEN RemoveAllSwapFrom(RemoveAtSwap(arr, ItemIndex), ItemIndex, now)
         ELSE RemoveAllSwapFrom(arr, ItemIndex + 1, now)

\* The same loop with the index moving on after a removal too: it skips the element
\* swapped into the place of the removed one.
RemoveAllSwapSkipping(arr, now) ==
    LET RECURSIVE From(_, _)
        From(a, ItemIndex) ==
            IF ItemIndex >= Len(a) THEN a
            ELSE IF ShouldRemove(a[ItemIndex + 1], now)
                 THEN From(RemoveAtSwap(a, ItemIndex), ItemIndex + 1)
                 ELSE From(a, ItemIndex + 1)
    IN  From(arr, 0)

RemoveAllSwap(arr, now) == RemoveAllSwapFrom(arr, 0, now)

UpdateAll(chains, DeltaTime, now) ==
    [i \in DOMAIN chains |-> ChainUpdate(chains[i], DeltaTime, now)]

TranslateAll(chains, Translation) ==
    [i \in DOMAIN chains |-> Translate(chains[i], Translation)]

\* The most chains of the set.
MaxChains == 2
\* The most operations on the chain set.
MaxSetSteps == 4

\* The chains spawned, each <<base, shape, first point pinned>>: inside the viewport
\* margin, just inside or outside each of its four limits, and with coincident points.
Slanted == <<Px(0, 0), Px(3, 4)>>
Coincident == <<Px(0, 0), Px(0, 0)>>
SetSpawns ==
    { <<Px(0, 0), Slanted, FALSE>>,
      <<Px(0, 2000), Slanted, FALSE>>,
      <<Px(3001, 0), Slanted, TRUE>>,
      <<Px(-1004, -3), Slanted, FALSE>>,
      <<Px(0, -1005), Slanted, TRUE>>,
      <<Px(3001, 0), Coincident, TRUE>> }
SetTranslations == {Px(-10, 0)}
SetDeltaTimes == {DtPerSecond \div 30}
SetTimeSteps == {1, MaxChainAge}

\* The chain made at time now of the points of shape moved by base, the first pinned or not.
SpawnedChain(now, base, shape, firstPinned) ==
    AddToChain(AddToChain(FVerletChain(now, DefaultGravity), VAdd(base, shape[1]), firstPinned),
               VAdd(base, shape[2]), FALSE)

SetInit ==
    /\ CurrentTime = 0
    /\ VerletChains = <<>>
    /\ updatedChains = <<>>
    /\ lastOp = NoOp
    /\ ChainIdle /\ WireIdle /\ RegIdle /\ IdIdle

CanSetStep == lastOp.n < MaxSetSteps

\* The host severs a wire: a chain is made of its geometry and added to the set.
SpawnChain ==
    \E sp \in SetSpawns :
        /\ CanSetStep /\ Len(VerletChains) < MaxChains
        /\ VerletChains' = Append(VerletChains, SpawnedChain(CurrentTime, sp[1], sp[2], sp[3]))
        /\ Did("SpawnChain", 0, sp[1])
        /\ UNCHANGED <<CurrentTime, chain, updatedChains, wireVars, regVars, idVars>>

UpdateVerletChains ==
    \E dt \in SetDeltaTimes :
        LET updated == UpdateAll(VerletChains, dt, CurrentTime)
        IN  /\ CanSetStep
            /\ VerletChains' = RemoveAllSwap(updated, CurrentTime)
            /\ updatedChains' = updated
            /\ Did("UpdateVerletChains", 0, ZeroVector)
            /\ UNCHANGED <<CurrentTime, chain, wireVars, regVars, idVars>>

TranslateVerletChains ==
    \E t \in SetTranslations :
        /\ CanSetStep /\ Len(VerletChains) > 0
        /\ VerletChains' = TranslateAll(VerletChains, t)
        /\ Did("TranslateVerletChains", 0, t)
        /\ UNCHANGED <<CurrentTime, chain, updatedChains, wireVars, regVars, idVars>>

AdvanceSetTime ==
    \E d \in SetTimeSteps :
        /\ CanSetStep
        /\ CurrentTime' = CurrentTime + d
        /\ Did("AdvanceTime", 0, ZeroVector)
        /\ UNCHANGED <<chain, setVars, wireVars, regVars, idVars>>

SetNext == SpawnChain \/ UpdateVerletChains \/ TranslateVerletChains \/ AdvanceSetTime

SpecSet == SetInit /\ [][SetNext]_vars

-----------------------------------------------------------------------------
(* Claims about the chain set *)

Count(arr, c) == Cardinality({i \in DOMAIN arr : arr[i] = c})

SetMin(S) == CHOOSE m \in S : \A x \in S : m <= x
SetMax(S) == CHOOSE m \in S : \A x \in S : m >= x

AllFinite(c) == \A i \in DOMAIN c.Points : ~IsNaN(c.Points[i].Position)

\* The bounding box of a chain: of a chain of points with well-defined positions, the
\* least and greatest coordinates; of any other chain, what CalcBounds makes of it.
BoundingBox(c) ==
    IF Len(c.Points) > 0 /\ AllFinite(c)
    THEN LET xs == {c.Points[i].Position.X : i \in DOMAIN c.Points}
             ys == {c.Points[i].Position.Y : i \in DOMAIN c.Points}
         IN  [Min |-> Vec(SetMin(xs), SetMin(ys)), Max |-> Vec(SetMax(xs), SetMax(ys))]
    ELSE [Min |-> CalcBounds(c).Min, Max |-> CalcBounds(c).Max]

\* The chains the claim says are removed at time now.
Doomed(c, now) ==
    \/ now - c.CreationTime > 30
    \/ LET b == BoundingBox(c)
       IN  /\ ~IsNaN(b.Min)
           /\ \/ b.Min.Y > 2000 * Scale
              \/ b.Max.Y < -1000 * Scale
              \/ b.Min.X > 3000 * Scale
              \/ b.Max.X < -1000 * Scale

\* C2: after UpdateVerletChains, no chain that is older than 30 s or whose bounding box
\* after the update lies beyond a limit is in the set, and every other chain is in it
\* as often as it was after the update.
C2_Eviction ==
    lastOp.op = "UpdateVerletChains" =>
        /\ \A i \in DOMAIN updatedChains :
            Count(VerletChains, updatedChains[i]) =
                IF Doomed(updatedChains[i], CurrentTime) THEN 0
                ELSE Count(updatedChains, updatedChains[i])
        /\ \A i \in DOMAIN VerletChains : Count(updatedChains, VerletChains[i]) > 0

\* C2's case: an update has removed a chain and kept another.
C2_Witness ==
    /\ lastOp.op = "UpdateVerletChains"
    /\ Len(updatedChains) = 2
    /\ Len(VerletChains) = 1
    /\ VerletChains[1] = updatedChains[2]

-----------------------------------------------------------------------------
(* FWireState *)

\* RopeLengthHangMultiplier = 1.f
RopeLengthHangMultiplier == 1
\* LerpedRopeLength = DesiredRopeLength * 1.1f = DesiredRopeLength * InitialSlackNum / InitialSlackDen
InitialSlackNum == 11
InitialSlackDen == 10
\* A slack multiplier is stored in hundredths.
SlackDen == 100
\* FMath::Lerp(LerpedRopeLength, DesiredRopeLength, DeltaTime * 20.f)
LerpRate == 20
\* Velocity.Y > 0.1f = BounceThresholdNum / BounceThresholdDen
BounceThresholdNum == 1
BounceThresholdDen == 10
\* Velocity.Y = FMath::Abs(Velocity.Y) * -0.9f = -BounceNum / BounceDen
BounceNum == 9
BounceDen == 10

CalculateDesiredCenterPoint(StartPoint0, EndPoint0) ==
    LET swap == StartPoint0.X > EndPoint0.X
        StartPoint == IF swap THEN EndPoint0 ELSE StartPoint0
        EndPoint == IF swap THEN StartPoint0 ELSE EndPoint0
        Delta == VSub(EndPoint, StartPoint)
        len == Size(Delta)
        \* Direction = Delta.GetSafeNormal(), of which only Y is used: Direction | (0, 1)
        DirectionY == IF len = 0 THEN 0 ELSE RDiv(Delta.Y * Unit, len)
        DotWithUp == Sign(DirectionY) * RDiv(DirectionY * DirectionY, Unit)
        NormalizedDotWithUp == RDiv(DotWithUp + Unit, 2)
    IN  Vec(Lerp(StartPoint.X, EndPoint.X, NormalizedDotWithUp, Unit),
            Lerp(StartPoint.Y, EndPoint.Y, NormalizedDotWithUp, Unit))

CalculateDesiredCenterPointWithRopeLengthDelta(StartPoint, EndPoint, RopeLengthDelta) ==
    LET Center == CalculateDesiredCenterPoint(StartPoint, EndPoint)
    IN  Vec(Center.X, Center.Y + RopeLengthDelta * RopeLengthHangMultiplier)

CalculateDesiredRopeLength(StartPoint, EndPoint, DesiredSlackMultiplier) ==
    RDiv(Size(VSub(EndPoint, StartPoint)) * DesiredSlackMultiplier, SlackDen)

\* FRK4SpringInterpolator: SetSpringConstants, then Reset(position): at rest at position.
SpringReset(SpringStiffness, SpringDampeningRatio, position) ==
    [Position |-> position, Velocity |-> ZeroVector,
     Stiffness |-> SpringStiffness, DampeningRatio |-> SpringDampeningRatio]

\* FWireState(StartPoint, EndPoint, ...); the constructor leaves Color unset.
FWireState(StartPoint, EndPoint, SpringStiffness, SpringDampeningRatio, InDesiredSlackMultiplier) ==
    LET Desired == CalculateDesiredRopeLength(StartPoint, EndPoint, InDesiredSlackMultiplier)
        Lerped == RDiv(Desired * InitialSlackNum, InitialSlackDen)
        LengthDelta == Lerped - Size(VSub(EndPoint, StartPoint))
        Center == CalculateDesiredCenterPointWithRopeLengthDelta(StartPoint, EndPoint, LengthDelta)
    IN  [DesiredRopeLength |-> Desired,
         LerpedRopeLength |-> Lerped,
         DesiredRopeCenterPoint |-> Center,
         SpringCenterPoint |-> SpringReset(SpringStiffness, SpringDampeningRatio, Center),
         DesiredSlackMultiplier |-> InDesiredSlackMultiplier,
         LastStartPoint |-> StartPoint,
         LastEndPoint |-> EndPoint,
         Color |-> "Unset"]

\* LerpedRopeLength without the FMath::Max with the tight length.
LerpedLengthUnclamped(Lerped, Desired, TightRopeLength, DeltaTime) ==
    Lerp(Lerped, Desired, DeltaTime * LerpRate, DtPerSecond)

\* The length with the interpolation left out.
LerpedLengthHeld(Lerped, Desired, TightRopeLength, DeltaTime) == FMax(TightRopeLength, Lerped)

\* FMath::Max(TightRopeLength, FMath::Lerp(LerpedRopeLength, DesiredRopeLength, DeltaTime * 20.f))
LerpedLength(Lerped, Desired, TightRopeLength, DeltaTime) ==
    FMax(TightRopeLength, Lerp(Lerped, Desired, DeltaTime * LerpRate, DtPerSecond))

\* The bounce with the test of BounceWires left out.
BounceAlways(bounce, Position, Target, Velocity) ==
    IF Position.Y > Target.Y /\ Velocity.Y * BounceThresholdDen > BounceThresholdNum * Scale
    THEN Vec(Velocity.X, -RDiv(Abs(Velocity.Y) * BounceNum, BounceDen))
    ELSE Velocity

\* The tracker's velocity after the bounce test at the end of Update.
Bounce(bounce, Position, Target, Velocity) ==
    IF bounce # 0 /\ Position.Y > Target.Y
                  /\ Velocity.Y * BounceThresholdDen > BounceThresholdNum * Scale
    THEN Vec(Velocity.X, -RDiv(Abs(Velocity.Y) * BounceNum, BounceDen))
    ELSE Velocity

\* What SpringCenterPoint.Update(target, DeltaTime) may leave: the engine's spring step
\* is not part of the program; its result is any of these, each <<the position's offset
\* from the target (in Scale/2), the velocity (in Scale/10)>>: below the target and
\* falling at 0.5, below it and falling at 0.1, above it and falling at 0.5.
SpringSteps == {<<Vec(0, 1), Vec(2, 5)>>, <<Vec(0, 1), Vec(2, 1)>>, <<Vec(0, -1), Vec(-2, 5)>>}

SpringOutcomes(target) ==
    {[Position |-> VAdd(target, VScale(o[1], Scale, 2)), Velocity |-> VScale(o[2], Scale, 10)] :
        o \in SpringSteps}

\* FWireState::Update, with the spring step leaving out; the state after it.
WireUpdate(w, StartPoint0, EndPoint0, DeltaTime, bounce, out) ==
    LET swap == StartPoint0.X > EndPoint0.X
        StartPoint == IF swap THEN EndPoint0 ELSE StartPoint0
        EndPoint == IF swap THEN StartPoint0 ELSE EndPoint0
        TightRopeLength == Size(VSub(EndPoint, StartPoint))
        Desired == RDiv(TightRopeLength * w.DesiredSlackMultiplier, SlackDen)
        Lerped == LerpedLength(w.LerpedRopeLength, Desired, TightRopeLength, DeltaTime)
        LengthDelta == Lerped - TightRopeLength
        Center == CalculateDesiredCenterPointWithRopeLengthDelta(StartPoint, EndPoint, LengthDelta)
    IN  [w EXCEPT !.LastStartPoint = StartPoint0,
                  !.LastEndPoint = EndPoint0,
                  !.DesiredRopeLength = Desired,
                  !.LerpedRopeLength = Lerped,
                  !.DesiredRopeCenterPoint = Center,
                  !.SpringCenterPoint.Position = out.Position,
                  !.SpringCenterPoint.Velocity = Bounce(bounce, out.Position, Center, out.Velocity)]

\* The target the spring step of WireUpdate is given.
WireTarget(w, StartPoint, EndPoint, DeltaTime) ==
    WireUpdate(w, StartPoint, EndPoint, DeltaTime, 0,
               [Position |-> ZeroVector, Velocity |-> ZeroVector]).DesiredRopeCenterPoint

-----------------------------------------------------------------------------
(* One wire state and its updates *)

\* The most updates of the wire.
MaxWireSteps == 2

\* The endpoints of a wire, each <<start, end>>.
WireEndpoints ==
    { <<Px(0, 0), Px(200, 0)>>, <<Px(0, 0), Px(30, 40)>>, <<Px(50, 0), Px(0, 0)>>,
      <<Px(10, 10), Px(10, 10)>> }
\* DeltaTime of 0, of 0.016 s and of 0.1 s
WireDeltaTimes == {0, (16 * DtPerSecond) \div 1000, DtPerSecond \div 10}
\* The random draws of a new wire, each <<stiffness variance (in tenths), dampening
\* variance (in tenths), slack above 1.3 (in hundredths)>>.
RandomDraws == {<<3, 7, 0>>, <<15, 12, 30>>}

\* const float DefaultStiffness = 100.f, DefaultDampeningRatio = 0.4f (kept in tenths)
DefaultStiffness == 100
DefaultDampeningRatio == 4
\* SlackMultiplier = 1.3f + FRandRange(0.f, 0.3f), in hundredths
BaseSlack == 130
\* FMath::Clamp(DefaultDampeningRatio * DampeningVariance, 0.3f, 0.9f), in hundredths
MinDampening == 30
MaxDampening == 90
\* The preview connector's extra stiffness 0.3f, in tenths
PreviewStiffness == 3

\* The stiffness (in tenths) of a new wire.
NewStiffness(draw, bIsPreviewConnector) ==
    DefaultStiffness * draw[1] + (IF bIsPreviewConnector THEN PreviewStiffness ELSE 0)

\* The dampening ratio (in hundredths) of a new wire.
NewDampeningRatio(draw) == FMax(MinDampening, FMin(MaxDampening, DefaultDampeningRatio * draw[2]))

NewSlackMultiplier(draw) == BaseSlack + draw[3]

WireInit ==
    /\ CurrentTime = 0
    /\ BounceWires \in {0, 1}
    /\ \E e \in WireEndpoints, d \in RandomDraws :
        wire = FWireState(e[1], e[2], NewStiffness(d, FALSE), NewDampeningRatio(d),
                          NewSlackMultiplier(d))
    /\ springOut = ZeroVector
    /\ lastOp = NoOp
    /\ ChainIdle /\ SetIdle /\ RegIdle /\ IdIdle

DoWireUpdate ==
    \E e \in WireEndpoints, dt \in WireDeltaTimes :
        \E out \in SpringOutcomes(WireTarget(wire, e[1], e[2], dt)) :
            /\ lastOp.n < MaxWireSteps
            /\ wire' = WireUpdate(wire, e[1], e[2], dt, BounceWires, out)
            /\ springOut' = out.Velocity
            /\ Did("WireUpdate", dt, ZeroVector)
            /\ UNCHANGED <<CurrentTime, chain, setVars, BounceWires, regVars, idVars>>

\* The console sets WibblyWires.BounceWires.
SetBounceWires ==
    /\ BounceWires' = 1 - BounceWires
    /\ lastOp' = [lastOp EXCEPT !.op = "SetBounceWires"]
    /\ UNCHANGED <<CurrentTime, chain, setVars, wire, springOut, regVars, idVars>>

WireNext == DoWireUpdate \/ SetBounceWires

SpecWire == WireInit /\ [][WireNext]_vars

\* C3: after an Update the stored LerpedRopeLength is at least the straight-line
\* distance of that call's endpoints.
C3_LengthFloor ==
    lastOp.op = "WireUpdate" =>
        wire.LerpedRopeLength >= Size(VSub(wire.LastEndPoint, wire.LastStartPoint))

\* C3's case: an Update whose endpoints are further apart than the length stored
\* before would allow, so that the floor decides: the stored length is the distance.
C3_Witness ==
    /\ lastOp.op = "WireUpdate"
    /\ wire.LerpedRopeLength = Size(VSub(wire.LastEndPoint, wire.LastStartPoint))
    /\ wire.LerpedRopeLength > 0
    /\ wire.DesiredRopeLength > wire.LerpedRopeLength

\* C10: after an Update, if bounce mode is on and the tracked position is below the
\* target (greater Y) and the spring step left a Y velocity above 0.1, the tracker's Y
\* velocity is -0.9 |Y velocity| (to the nearest stored value; negative) and its X
\* velocity is as the spring step left it; otherwise the whole velocity is as the
\* spring step left it.
C10_Bounce ==
    lastOp.op = "WireUpdate" =>
        LET v == wire.SpringCenterPoint.Velocity
        IN  IF /\ BounceWires # 0
               /\ wire.SpringCenterPoint.Position.Y > wire.DesiredRopeCenterPoint.Y
               /\ 10 * springOut.Y > Scale
            THEN /\ 2 * Abs(10 * v.Y + 9 * springOut.Y) <= 10
                 /\ v.Y < 0
                 /\ v.X = springOut.X
            ELSE v = springOut

\* C10's case: the bounce has reversed a downward velocity of 0.5 to -0.45.
C10_Witness ==
    /\ lastOp.op = "WireUpdate"
    /\ BounceWires # 0
    /\ 2 * springOut.Y = Scale
    /\ 20 * wire.SpringCenterPoint.Velocity.Y = -9 * Scale
    /\ wire.SpringCenterPoint.Velocity.X # 0

\* The wire of the example: from (0,0) to (200,0) with slack multiplier 1.3.
ExampleWire(w) ==
    /\ w.LastStartPoint = Px(0, 0)
    /\ w.LastEndPoint = Px(200, 0)
    /\ w.DesiredSlackMultiplier = BaseSlack

\* A DeltaTime of 0.016 s
ExampleDeltaTime == (16 * DtPerSecond) \div 1000

\* C11: a wire constructed from (0,0) to (200,0) with slack multiplier 1.3 has
\* DesiredRopeLength 260 and LerpedRopeLength 286, and one Update of it with the same
\* endpoints and DeltaTime 0.016 leaves LerpedRopeLength below 286, at least 260 and at
\* least 200.  And every Update with 0 < 20 DeltaTime < 1 leaves LerpedRopeLength
\* between its old value and the new DesiredRopeLength, never beyond the latter, and
\* off its old value whenever the step is a representable one.
C11_LerpTowardDesired ==
    [][lastOp'.n = lastOp.n + 1 =>
        LET old == wire.LerpedRopeLength
            new == wire'.LerpedRopeLength
            Desired == wire'.DesiredRopeLength
            dt == lastOp'.i
            moves == 2 * dt * LerpRate * Abs(Desired - old) >= DtPerSecond
        IN  /\ (lastOp.n = 0 /\ ExampleWire(wire)) =>
                /\ wire.DesiredRopeLength = 260 * Scale
                /\ wire.LerpedRopeLength = 286 * Scale
                /\ (ExampleWire(wire') /\ dt = ExampleDeltaTime) =>
                        /\ new < 286 * Scale
                        /\ new >= 260 * Scale
                        /\ new >= 200 * Scale
            /\ (0 < dt * LerpRate /\ dt * LerpRate < DtPerSecond) =>
                /\ old > Desired => (new >= Desired /\ new <= old /\ (moves => new < old))
                /\ old < Desired => (new <= Desired /\ new >= old /\ (moves => new > old))
                /\ old = Desired => new = Desired
    ]_vars

\* C11's case: the example wire after its first Update, its length now 277.68.
C11_Witness ==
    /\ lastOp.op = "WireUpdate" /\ lastOp.n = 1 /\ lastOp.i = ExampleDeltaTime
    /\ ExampleWire(wire)
    /\ wire.DesiredRopeLength = 260 * Scale
    /\ wire.LerpedRopeLength < 286 * Scale
    /\ wire.LerpedRopeLength > 260 * Scale

\* A length has grown towards a greater desired length by interpolation alone.
C11_WitnessGrowing ==
    /\ lastOp.op = "WireUpdate" /\ lastOp.i = ExampleDeltaTime
    /\ wire.LerpedRopeLength < wire.DesiredRopeLength
    /\ wire.LerpedRopeLength > Size(VSub(wire.LastEndPoint, wire.LastStartPoint))

-----------------------------------------------------------------------------
(* A chain built by appending, under the operations of FVerletChain *)

\* The most points appended; as many other operations are applied.
MaxAppends == 3
MaxBuildSteps == MaxAppends

\* The positions appended at.  The first point of a chain is appended at the origin and
\* pinned, as the end of a cut wire is.
BuildPositions == {Px(0, 0), Px(3, 4)}
\* DeltaTime of 1/30 s
BuildDeltaTimes == {DtPerSecond \div 30}

BuildInit ==
    /\ CurrentTime = 0
    /\ chain = FVerletChain(0, DefaultGravity)
    /\ lastOp = NoOp
    /\ SetIdle /\ WireIdle /\ RegIdle /\ IdIdle

CanBuild == lastOp.n < MaxBuildSteps

BuildAddToChain ==
    \E p \in IF Len(chain.Points) = 0 THEN {ZeroVector} ELSE BuildPositions,
       b \in {Len(chain.Points) = 0} :
        /\ Len(chain.Points) < MaxAppends
        /\ chain' = AddToChain(chain, p, b)
        /\ lastOp' = [lastOp EXCEPT !.op = "AddToChain", !.i = Len(chain.Points)]
        /\ UNCHANGED <<CurrentTime, setVars, wireVars, regVars, idVars>>

BuildUpdate ==
    \E dt \in BuildDeltaTimes :
        /\ CanBuild
        /\ chain' = ChainUpdate(chain, dt, CurrentTime)
        /\ Did("Update", 0, ZeroVector)
        /\ UNCHANGED <<CurrentTime, setVars, wireVars, regVars, idVars>>

BuildTranslate ==
    \E t \in ChainTranslations :
        /\ CanBuild
        /\ chain' = Translate(chain, t)
        /\ Did("Translate", 0, t)
        /\ UNCHANGED <<CurrentTime, setVars, wireVars, regVars, idVars>>

BuildShrinkSticksBy ==
    /\ CanBuild
    /\ chain' = ShrinkSticksBy(chain, 1, 2)
    /\ Did("ShrinkSticksBy", 0, ZeroVector)
    /\ UNCHANGED <<CurrentTime, setVars, wireVars, regVars, idVars>>

BuildSetAllPinned ==
    \E b \in BOOLEAN :
        /\ CanBuild
        /\ chain' = SetAllPinned(chain, b)
        /\ Did("SetAllPinned", 0, ZeroVector)
        /\ UNCHANGED <<CurrentTime, setVars, wireVars, regVars, idVars>>

\* The host's clock passes the break delay.
BuildAdvanceTime ==
    /\ CurrentTime = 0
    /\ CurrentTime' = SecondsBeforeBreaking + 1
    /\ lastOp' = [lastOp EXCEPT !.op = "AdvanceTime"]
    /\ UNCHANGED <<chain, setVars, wireVars, regVars, idVars>>

BuildNext ==
    \/ BuildAdvanceTime
    \/ BuildAddToChain
    \/ BuildUpdate
    \/ BuildTranslate
    \/ BuildShrinkSticksBy
    \/ BuildSetAllPinned

SpecBuild == BuildInit /\ [][BuildNext]_vars

\* Stick k (counted from 0) joins the points k and k + 1, both of them points of c.
WellFormedSticks(c) ==
    \A k \in DOMAIN c.Sticks :
        /\ c.Sticks[k].Point0Index = k - 1
        /\ c.Sticks[k].Point1Index = k
        /\ c.Sticks[k].Point0Index \in 0 .. Len(c.Points) - 1
        /\ c.Sticks[k].Point1Index \in 0 .. Len(c.Points) - 1

\* C12: in a chain built by AddToChain alone, after any appends and any Update,
\* Translate, ShrinkSticksBy and SetAllPinned calls, there are max(0, points - 1)
\* sticks, stick i joins points i and i + 1, both valid indices, and no call removes a
\* point.
C12_StickStructure ==
    /\ [](/\ Len(chain.Sticks) = (IF Len(chain.Points) = 0 THEN 0 ELSE Len(chain.Points) - 1)
          /\ WellFormedSticks(chain))
    /\ [][Len(chain'.Points) >= Len(chain.Points)]_vars

\* C12's case: three points and two sticks, after an Update, a Translate and a
\* ShrinkSticksBy.
C12_Witness ==
    /\ Len(chain.Points) = 3
    /\ Len(chain.Sticks) = 2
    /\ lastOp.n >= 3
    /\ lastOp.op \in {"Update", "ShrinkSticksBy", "Translate", "SetAllPinned"}

\* The chain is past its break delay and has not broken.
DueToBreak == GetSecondsSinceCreated(chain, CurrentTime) > SecondsBeforeBreaking /\ ~chain.bHasBroken

\* C13: an Update of a chain that is past the break delay and has not broken leaves
\* every point unpinned and bHasBroken true, and the unpinning precedes the substeps:
\* the points that were pinned have been moved by them.  Any other Update leaves
\* bHasBroken and every pinned flag as they were, and no step makes bHasBroken false
\* again.
C13_BreaksOnce ==
    [][/\ chain.bHasBroken => chain'.bHasBroken
       /\ lastOp'.n = lastOp.n + 1 /\ lastOp'.op = "Update" =>
            IF DueToBreak
            THEN /\ chain'.bHasBroken
                 /\ \A i \in DOMAIN chain.Points :
                        /\ ~chain'.Points[i].bIsPinned
                        /\ (chain.Points[i].bIsPinned /\ ~IsNaN(chain'.Points[i].Position))
                                => chain'.Points[i].Position # chain.Points[i].Position
            ELSE /\ chain'.bHasBroken = chain.bHasBroken
                 /\ \A i \in DOMAIN chain.Points :
                        chain'.Points[i].bIsPinned = chain.Points[i].bIsPinned
    ]_vars

\* C13's case: the chain has broken, its owner has pinned it again, and an Update has
\* left it pinned.
C13_Witness ==
    /\ lastOp.op = "Update"
    /\ chain.bHasBroken
    /\ Len(chain.Points) >= 2
    /\ \A i \in DOMAIN chain.Points : chain.Points[i].bIsPinned

\* A pinned chain has just broken: its points are loose and have moved.
C13_WitnessBreak ==
    /\ lastOp.op = "Update" /\ lastOp.n = 1
    /\ chain.bHasBroken
    /\ Len(chain.Points) >= 2
    /\ \A i \in DOMAIN chain.Points :
        ~IsNaN(chain.Points[i].Position) /\ chain.Points[i].Position # chain.Points[i].LastPosition

-----------------------------------------------------------------------------
(* FWireId *)

\* nullptr
NullPin == 0

\* FWireId(InStartPin, InEndPin); the hash is a function of the two pins and left out.
FWireId(InStartPin, InEndPin) == [StartPin |-> InStartPin, EndPin |-> InEndPin]

\* operator ==
IdEquals(a, b) == a.StartPin = b.StartPin /\ a.EndPin = b.EndPin

\* operator !=
IdNotEquals(a, b) == a.StartPin # b.StartPin /\ a.EndPin # b.EndPin

IsPreviewConnector(id) == id.StartPin = NullPin \/ id.EndPin = NullPin

GetConnectedPin(id) == IF id.StartPin = NullPin THEN id.EndPin ELSE id.StartPin

-----------------------------------------------------------------------------
(* FGraphState::Wires and DrawConnection *)

\* const float DistThresholdSqr = 30.f * 30.f
DistThreshold == 30
DistThresholdSqr == (DistThreshold * Scale) * (DistThreshold * Scale)

DistSquared(a, b) == SizeSquared(VSub(a, b))

\* TMap::Find: the place of the entry with the key, 0 when there is none.
Find(wires, WireId) ==
    IF \E i \in DOMAIN wires : IdEquals(wires[i].Key, WireId)
    THEN CHOOSE i \in DOMAIN wires : IdEquals(wires[i].Key, WireId)
    ELSE 0

\* An Add that clears the preview connectors out of the map.
AddDroppingPreviews(wires, WireId, state) ==
    Append(SelectSeq(wires, LAMBDA e : ~IsPreviewConnector(e.Key)),
           [Key |-> WireId, Value |-> state])

\* TMap::Add: the value of an entry with the key is replaced; a new entry comes last.
Add(wires, WireId, state) ==
    IF Find(wires, WireId) # 0
    THEN [wires EXCEPT ![Find(wires, WireId)].Value = state]
    ELSE Append(wires, [Key |-> WireId, Value |-> state])

\* The inheritance loop without its test of the connected pin.
InheritFromAnyPin(wires, NewWireState, Pin1, Pin2, Start, End, k) ==
    LET RECURSIVE From(_, _)
        From(state, j) ==
            IF j > Len(wires) THEN state
            ELSE IF /\ IsPreviewConnector(wires[j].Key)
                    /\ DistSquared(wires[j].Value.LastStartPoint, Start) < DistThresholdSqr
                    /\ DistSquared(wires[j].Value.LastEndPoint, End) < DistThresholdSqr
                 THEN From(wires[j].Value, j + 1)
                 ELSE From(state, j + 1)
    IN  From(NewWireState, k)

\* The loop over the existing entries, from the k-th on, in the order of the map: the
\* state the new wire starts with.
RECURSIVE InheritFrom(_, _, _, _, _, _, _)
InheritFrom(wires, NewWireState, Pin1, Pin2, Start, End, k) ==
    IF k > Len(wires) THEN NewWireState
    ELSE LET ExistingState == wires[k]
             ConnectedPin == GetConnectedPin(ExistingState.Key)
         IN  IF ~IsPreviewConnector(ExistingState.Key)
             THEN InheritFrom(wires, NewWireState, Pin1, Pin2, Start, End, k + 1)
             ELSE IF ConnectedPin # Pin1 /\ ConnectedPin # Pin2
             THEN InheritFrom(wires, NewWireState, Pin1, Pin2, Start, End, k + 1)
             ELSE IF /\ DistSquared(ExistingState.Value.LastStartPoint, Start) < DistThresholdSqr
                     /\ DistSquared(ExistingState.Value.LastEndPoint, End) < DistThresholdSqr
             THEN InheritFrom(wires, ExistingState.Value, Pin1, Pin2, Start, End, k + 1)
             ELSE InheritFrom(wires, NewWireState, Pin1, Pin2, Start, End, k + 1)

\* The freshly randomised state of a new wire, with its colour.
FreshWireState(Start, End, Pin1, Pin2, draw, WireColor) ==
    LET bIsPreviewConnector == Pin1 = NullPin \/ Pin2 = NullPin
    IN  [FWireState(Start, End, NewStiffness(draw, bIsPreviewConnector),
                    NewDampeningRatio(draw), NewSlackMultiplier(draw))
            EXCEPT !.Color = WireColor]

\* Find that finds nothing.
FindNothing(wires, WireId) == 0

\* GraphState.Wires.Find(WireId) in DrawConnection
FindWire(wires, WireId) == Find(wires, WireId)

\* The most draws of a behaviour.
MaxDraws == 3

Pins == {1, 2}
\* The connections drawn, each <<AssociatedPin1, AssociatedPin2>>: a preview connector
\* from each pin, and the connection from pin 1 to pin 2.
DrawnIds == {<<1, NullPin>>, <<2, NullPin>>, <<1, 2>>}
\* The endpoints drawn at, each <<Start, End>>: the second is within 30 of the first at
\* both ends, the third's end is 30 from the first's and further from the second's.
DrawnEndpoints ==
    { <<Px(0, 0), Px(100, 0)>>, <<Px(10, 0), Px(110, 0)>>, <<Px(0, 0), Px(100, 30)>> }
WireColors == {"White"}
\* FSlateApplication::Get().GetDeltaTime() = 1/60 s
DrawDeltaTimes == {DtPerSecond \div 60}

\* The spring step of a draw.
DrawSpringOutcomes(target) ==
    {[Position |-> VAdd(target, VScale(Vec(0, 1), Scale, 2)),
      Velocity |-> VScale(Vec(2, 5), Scale, 10)]}

DrawInit ==
    /\ CurrentTime = 0
    /\ Wires = <<>>
    /\ lastDraw = NoDraw
    /\ lastOp = NoOp
    /\ BounceWires = 0 /\ wire = NoWire /\ springOut = ZeroVector
    /\ ChainIdle /\ SetIdle /\ IdIdle

DrawConnection ==
    \E pins \in DrawnIds, e \in DrawnEndpoints, frame \in DrawDeltaTimes :
        LET Start == e[1]
            End == e[2]
            WireId == FWireId(pins[1], pins[2])
            DeltaTime == FMin(frame, MaxDeltaTime)
        IN  \E found \in {FindWire(Wires, WireId)} :
            \E draw \in IF found = 0 THEN RandomDraws ELSE {<<0, 0, 0>>},
               color \in IF found = 0 THEN WireColors ELSE {"Unset"} :
            \E added \in {IF found = 0
                          THEN Add(Wires, WireId,
                                   InheritFrom(Wires,
                                               FreshWireState(Start, End, pins[1], pins[2], draw, color),
                                               pins[1], pins[2], Start, End, 1))
                          ELSE Wires} :
            \E at \in {IF found = 0 THEN Find(added, WireId) ELSE found} :
            \E WireState \in {added[at].Value} :
            \E out \in DrawSpringOutcomes(WireTarget(WireState, Start, End, DeltaTime)) :
                /\ lastOp.n < MaxDraws
                /\ Wires' = [added EXCEPT ![at].Value =
                                WireUpdate(WireState, Start, End, DeltaTime, BounceWires, out)]
                /\ lastDraw' = [id |-> <<pins[1], pins[2]>>, created |-> found = 0, base |-> WireState]
                /\ Did("DrawConnection", 0, ZeroVector)
                /\ UNCHANGED <<CurrentTime, chain, setVars, wireVars, idVars>>

\* WibblyWires.ResetWireStates: GraphStates.Reset()
ResetWireStates ==
    /\ Len(Wires) > 0
    /\ Wires' = <<>>
    /\ lastDraw' = NoDraw
    /\ lastOp' = [lastOp EXCEPT !.op = "ResetWireStates"]
    /\ UNCHANGED <<CurrentTime, chain, setVars, wireVars, idVars>>

DrawNext == DrawConnection \/ ResetWireStates

SpecDraw == DrawInit /\ [][DrawNext]_vars

-----------------------------------------------------------------------------
(* Claims about the registry *)

Near(a, b) == DistSquared(a, b) < DistThresholdSqr

\* The entries that were in the registry before the draw that created the last one.
PriorEntries == 1 .. Len(Wires) - 1

\* After a draw that created an entry: the prior preview entries whose recorded
\* endpoints are both within 30 px of the endpoints of the draw.
NearPreviews ==
    { i \in PriorEntries :
        /\ IsPreviewConnector(Wires[i].Key)
        /\ Near(Wires[i].Value.LastStartPoint, Wires[Len(Wires)].Value.LastStartPoint)
        /\ Near(Wires[i].Value.LastEndPoint, Wires[Len(Wires)].Value.LastEndPoint) }

\* Those of them whose connected pin is one of the two pins of the draw.
NearPreviewsOfPin ==
    { i \in NearPreviews : GetConnectedPin(Wires[i].Key) \in {lastDraw.id[1], lastDraw.id[2]} }

\* C4, as stated: when a connection of an unseen identity is drawn and some preview
\* entry of the registry has both recorded endpoints within 30 px of the new wire's, the
\* state inserted for the new identity is a copy of such an entry's state, whatever the
\* entry's pins.
C4_InheritsFromAnyNearPreview ==
    (lastDraw.created /\ NearPreviews # {})
        => \E i \in NearPreviews : lastDraw.base = Wires[i].Value

\* C4, amended: when a connection of an unseen identity is drawn, the state inserted for
\* it is a copy of the state of the last preview entry, in the registry's order, that
\* has both recorded endpoints less than 30 px from the new wire's and whose connected
\* pin is one of the new wire's two pins; when there is no such entry it is the freshly
\* randomised state.
C4_InheritsFromNearPreviewOfPin ==
    lastDraw.created =>
        IF NearPreviewsOfPin # {}
        THEN lastDraw.base = Wires[SetMax(NearPreviewsOfPin)].Value
        ELSE \E draw \in RandomDraws, color \in WireColors :
                lastDraw.base = FreshWireState(Wires[Len(Wires)].Value.LastStartPoint,
                                               Wires[Len(Wires)].Value.LastEndPoint,
                                               lastDraw.id[1], lastDraw.id[2], draw, color)

\* A new connection has started from the state of a preview connector that had moved:
\* its spring has the preview's velocity, and two previews qualified.
C4_Witness ==
    /\ lastDraw.created
    /\ Cardinality(NearPreviewsOfPin) = 2
    /\ lastDraw.base = Wires[SetMax(NearPreviewsOfPin)].Value
    /\ lastDraw.base.SpringCenterPoint.Velocity # ZeroVector
    /\ ~IsPreviewConnector(Wires[Len(Wires)].Key)

\* A near preview of another pin was in the registry and the new wire started fresh.
C4_WitnessOtherPin ==
    /\ lastDraw.created
    /\ NearPreviews # {}
    /\ NearPreviewsOfPin = {}

\* The places of the entries of the registry w with the identity id.
EntriesOf(w, id) == { i \in DOMAIN w : IdEquals(w[i].Key, FWireId(id[1], id[2])) }

\* C8: every DrawConnection updates a state that is in the registry under the drawn
\* identity.  The draw of an unseen identity inserts exactly one entry and updates it; a
\* draw of an identity that has an entry updates that entry, the state handed to Update
\* being the entry's own, and builds no state; no other entry changes.
C8_CreateBeforeUpdate ==
    [][lastOp'.n = lastOp.n + 1 =>
        /\ Cardinality(EntriesOf(Wires', lastDraw'.id)) = 1
        /\ Len(Wires') >= Len(Wires)
        /\ \A i \in DOMAIN Wires :
                i \notin EntriesOf(Wires', lastDraw'.id) => Wires'[i] = Wires[i]
        /\ IF EntriesOf(Wires, lastDraw'.id) = {}
           THEN /\ lastDraw'.created
                /\ Len(Wires') = Len(Wires) + 1
                /\ EntriesOf(Wires', lastDraw'.id) = {Len(Wires')}
           ELSE /\ ~lastDraw'.created
                /\ Len(Wires') = Len(Wires)
                /\ EntriesOf(Wires', lastDraw'.id) = EntriesOf(Wires, lastDraw'.id)
                /\ \A i \in EntriesOf(Wires, lastDraw'.id) :
                        /\ lastDraw'.base = Wires[i].Value
                        /\ Wires'[i].Value.DesiredSlackMultiplier = Wires[i].Value.DesiredSlackMultiplier
                        /\ Wires'[i].Value.Color = Wires[i].Value.Color
                        /\ Wires'[i].Value.SpringCenterPoint.Stiffness
                                = Wires[i].Value.SpringCenterPoint.Stiffness
    ]_vars

\* An identity that had an entry has been drawn again, beside another entry.
C8_Witness ==
    /\ lastOp.op = "DrawConnection"
    /\ ~lastDraw.created
    /\ Len(Wires) = 2
    /\ EntriesOf(Wires, lastDraw.id) # {}

\* C14: between two resets the registry only grows.  A DrawConnection keeps every
\* entry in its place under its identity, adds at most one entry, which is then the
\* drawn identity's, and changes the state of no entry but the drawn identity's; so a
\* preview connector's entry stays, with its recorded endpoints, when it is drawn no
\* more and when another wire has inherited its state.
C14_RegistryOnlyGrows ==
    [][lastOp'.n = lastOp.n + 1 =>
        /\ Len(Wires') \in {Len(Wires), Len(Wires) + 1}
        /\ \A i \in DOMAIN Wires :
            /\ Wires'[i].Key = Wires[i].Key
            /\ ~IdEquals(Wires[i].Key, FWireId(lastDraw'.id[1], lastDraw'.id[2]))
                    => Wires'[i].Value = Wires[i].Value
        /\ Len(Wires') = Len(Wires) + 1
                => IdEquals(Wires'[Len(Wires')].Key, FWireId(lastDraw'.id[1], lastDraw'.id[2]))
    ]_vars

\* C14's case: a connection inherited the state of a preview connector and has since
\* been drawn elsewhere; the preview's entry is still there with its own endpoints.
C14_Witness ==
    /\ lastOp.op = "DrawConnection"
    /\ ~lastDraw.created
    /\ Len(Wires) = 2
    /\ IsPreviewConnector(Wires[1].Key)
    /\ ~IsPreviewConnector(Wires[2].Key)
    /\ lastDraw.id = <<Wires[2].Key.StartPin, Wires[2].Key.EndPin>>
    /\ Wires[2].Value.SpringCenterPoint.Stiffness = Wires[1].Value.SpringCenterPoint.Stiffness
    /\ Wires[2].Value.LastEndPoint # Wires[1].Value.LastEndPoint

-----------------------------------------------------------------------------
(* The operations of FWireId *)

PinsOrNull == Pins \cup {NullPin}

IdInit ==
    /\ CurrentTime = 0
    /\ idA \in PinsOrNull \X PinsOrNull
    /\ idB \in PinsOrNull \X PinsOrNull
    /\ idOut = <<>>
    /\ ChainIdle /\ SetIdle /\ WireIdle /\ RegIdle

Returned(name, value) ==
    /\ idOut' = <<name, value>>
    /\ UNCHANGED <<CurrentTime, idA, idB, chainVars, setVars, wireVars, regVars>>

CallIsPreviewConnector == Returned("IsPreviewConnector", IsPreviewConnector(FWireId(idA[1], idA[2])))

CallGetConnectedPin == Returned("GetConnectedPin", GetConnectedPin(FWireId(idA[1], idA[2])))

CallEquals == Returned("==", IdEquals(FWireId(idA[1], idA[2]), FWireId(idB[1], idB[2])))

CallNotEquals == Returned("!=", IdNotEquals(FWireId(idA[1], idA[2]), FWireId(idB[1], idB[2])))

IdNext == CallIsPreviewConnector \/ CallGetConnectedPin \/ CallEquals \/ CallNotEquals

SpecId == IdInit /\ [][IdNext]_vars

\* C5: IsPreviewConnector returns true exactly when one of the two endpoints of the
\* identity is absent and the other is present.
C5_PreviewIffExactlyOneAbsent ==
    (idOut # <<>> /\ idOut[1] = "IsPreviewConnector")
        => (idOut[2] <=> ((idA[1] = NullPin) # (idA[2] = NullPin)))

\* What the code computes: true exactly when at least one endpoint is absent.
C5_PreviewIffSomeAbsent ==
    (idOut # <<>> /\ idOut[1] = "IsPreviewConnector")
        => (idOut[2] <=> (idA[1] = NullPin \/ idA[2] = NullPin))

\* C15: for all identities a and b, a == b is true exactly when the start pins are the
\* same and the end pins are the same, and a != b is true exactly when a == b is false.
C15_NotEqualsNegatesEquals ==
    /\ (idOut # <<>> /\ idOut[1] = "==") => (idOut[2] <=> (idA[1] = idB[1] /\ idA[2] = idB[2]))
    /\ (idOut # <<>> /\ idOut[1] = "!=") => (idOut[2] <=> ~(idA[1] = idB[1] /\ idA[2] = idB[2]))

\* What the code computes for !=: true exactly when both the start pins and the end
\* pins differ.
C15_NotEqualsIffBothDiffer ==
    (idOut # <<>> /\ idOut[1] = "!=") => (idOut[2] <=> (idA[1] # idB[1] /\ idA[2] # idB[2]))

====
